---------------------------- MODULE Spec2Model ----------------------------
(***************************************************************************)
(* Candlestick retrieval of crypto_trading_project: the row count          *)
(* estimator and the window planner of _utils.py, and the constructor of   *)
(* Candles in main.py (ticker validation, datetime normalisation, the      *)
(* 5000 row admission check, one request per window, the assembly).        *)
(*                                                                         *)
(* Time is counted in whole seconds.  A datetime is the number of seconds  *)
(* from 2023-01-01 00:00:00 (day 0), in the frame the Python object lives  *)
(* in: UTC for the aware datetimes of the sub-daily intervals, the literal *)
(* wall clock for the naive datetimes of the daily interval.  Day 0 starts *)
(* on a multiple of every supported interval, so a datetime is on the      *)
(* exchange's candle grid exactly when it is a multiple of the interval.   *)
(* A timezone is its (fixed) offset from UTC in seconds.                    *)
(***************************************************************************)
EXTENDS Integers, Sequences, FiniteSets, TLC

VARIABLES
    pc,                 \* position of the running call
    args,               \* the arguments of the call
    http,               \* the requests sent so far, in order
    responses,          \* the status codes of the responses received so far, in order
    time_interval,      \* self.time_interval / the time_interval parameter
    start_datetime,     \* self.start_datetime / the start_datetime parameter
    end_datetime,       \* self.end_datetime / the end_datetime parameter
    number_of_rows,     \* the value get_row_count returned
    date_ranges,        \* the list get_date_ranges returned
    range_index,        \* how many windows of date_ranges the for loop has finished
    list_of_dataframes, \* the responses appended so far
    df,                 \* self.df: <<>> while the attribute is not set, else <<series>>
    slept,              \* the seconds spent in time.sleep so far
    temp_end_datetime   \* temp_end_datetime of get_date_ranges, when run step by step

vars == <<pc, args, http, responses, time_interval, start_datetime, end_datetime,
          number_of_rows, date_ranges, range_index, list_of_dataframes, df,
          slept, temp_end_datetime>>

----------------------------------------------------------------------------
(* Program constants *)

\* timedelta(seconds=time_interval_in_seconds * 290)
MaxRowsPerWindow == 290

\* if number_of_rows > 5000
RowLimit == 5000

\* if response.status_code != 200
StatusOK == 200

\* a response status other than 200
StatusError == 500

\* datetime.strptime('23:59:59', '%H:%M:%S'), as seconds of the day
EndOfDay == 86399

\* datetime.strptime('00:00:00', '%H:%M:%S'), as seconds of the day
StartOfDay == 0

\* seconds of a calendar day (datetime.combine of a date and a time)
SecondsPerDay == 86400

\* get_time_intervals('coinbase')
TimeIntervals ==
    [i \in {"1m", "5m", "15m", "1h", "6h", "1d"} |->
        CASE i = "1m"  -> 60
          [] i = "5m"  -> 300
          [] i = "15m" -> 900
          [] i = "1h"  -> 3600
          [] i = "6h"  -> 21600
          [] i = "1d"  -> 86400]

Intervals == DOMAIN TimeIntervals

----------------------------------------------------------------------------
(* Arithmetic of the Python expressions *)

\* math.ceil(a / d) for integers a and d > 0
Ceil(a, d) == -((-a) \div d)

\* round(a / d) for integers a and d > 0: Python rounds a tie to the even integer
Round(a, d) ==
    LET q == a \div d
        r == a % d
    IN  IF 2 * r < d THEN q
        ELSE IF 2 * r > d THEN q + 1
        ELSE IF q % 2 = 0 THEN q ELSE q + 1

\* datetime.minute and datetime.second
Minute(t) == (t \div 60) % 60
Second(t) == t % 60

----------------------------------------------------------------------------
(* _utils.get_row_count *)

get_row_count(start, end, interval, seconds) ==
    LET diff_seconds == end - start
    IN  CASE interval = "1d" -> Ceil(diff_seconds, seconds)
          [] interval \in {"1h", "6h"} ->
                IF Minute(end) # 0
                THEN Ceil(diff_seconds, seconds)
                ELSE Round(diff_seconds, seconds) + 1
          [] interval \in {"15m", "5m", "1m"} ->
                IF Second(end) # 0
                THEN Ceil(diff_seconds, seconds)
                ELSE Round(diff_seconds, seconds) + 1

----------------------------------------------------------------------------
(* _utils.get_date_ranges *)

\* start_datetime + timedelta(seconds=time_interval_in_seconds * 290)
WindowEndShort(start, seconds) == start + seconds * (MaxRowsPerWindow - 1)
WindowEnd(start, seconds) == start + seconds * MaxRowsPerWindow

\* temp_end_datetime + timedelta(seconds=time_interval_in_seconds)
NextStartOverlap(temp_end, seconds) == temp_end
NextStart(temp_end, seconds) == temp_end + seconds

\* if temp_end_datetime > final_end_datetime: temp_end_datetime = final_end_datetime
NoClamp(temp_end, final_end) == temp_end
ClampEnd(temp_end, final_end) == IF temp_end > final_end THEN final_end ELSE temp_end

\* the while loop: ranges is date_ranges, temp_end is temp_end_datetime
RECURSIVE DateRangesLoop(_, _, _, _)
DateRangesLoop(ranges, temp_end, final_end, seconds) ==
    IF temp_end < final_end
    THEN LET start == NextStart(temp_end, seconds)
             end   == ClampEnd(WindowEnd(start, seconds), final_end)
         IN  DateRangesLoop(Append(ranges, <<start, end>>), end, final_end, seconds)
    ELSE ranges

get_date_ranges(start, final_end, seconds) ==
    LET temp_end == WindowEnd(start, seconds)
    IN  IF temp_end >= final_end
        THEN << <<start, final_end>> >>
        ELSE DateRangesLoop(<< <<start, temp_end>> >>, temp_end, final_end, seconds)

----------------------------------------------------------------------------
(* The exchange: the candles of a granularity start on the multiples of it,  *)
(* and a request for [start, end] is answered with the candles whose start   *)
(* lies in the range, both ends included, newest first.                      *)

ExchangeCandles(start, end, seconds) ==
    LET first == Ceil(start, seconds)
        last  == end \div seconds
    IN  [i \in 1..(IF last < first THEN 0 ELSE last - first + 1) |->
            (last - (i - 1)) * seconds]

----------------------------------------------------------------------------
(* Bounds of the model *)

\* the calls of the two functions: spans of 0..MaxSmallCount whole intervals,
\* and spans around each of the first MaxFnWindows window boundaries
MaxSmallCount == 3
MaxFnWindows == 3

\* the spans (in whole intervals) of the calls; 649 is a span of 650 candles
FnCounts ==
    (-1..MaxSmallCount)
        \cup {j * (MaxRowsPerWindow + 1) + e : j \in 1..MaxFnWindows, e \in -2..1}
        \cup {649}

\* what the end lies past the last whole interval
FnRemainders(seconds) ==
    {r \in {0, 1, 30, 60, 180, 1800, 3600, 14400, seconds \div 2, seconds - 1} :
        r < seconds}

\* the starts: on the grid of every interval (0), off the minute (00:00:30),
\* midnight of UTC-5 (05:00:00) and of UTC+5:30 (18:30:00)
FnStarts == {0, 30, 18000, 66600}

----------------------------------------------------------------------------
(* The two functions called on their own *)

InitFn ==
    /\ pc = "fn_called"
    /\ args = [call |-> "functions"]
    /\ http = <<>>
    /\ responses = <<>>
    /\ time_interval \in Intervals
    /\ start_datetime \in FnStarts
    /\ \E q \in FnCounts : \E r \in FnRemainders(TimeIntervals[time_interval]) :
          end_datetime = start_datetime + q * TimeIntervals[time_interval] + r
    /\ number_of_rows = 0
    /\ date_ranges = <<>>
    /\ range_index = 0
    /\ list_of_dataframes = <<>>
    /\ df = <<>>
    /\ slept = 0
    /\ temp_end_datetime = 0

FnGetRowCount ==
    /\ pc = "fn_called"
    /\ number_of_rows' = get_row_count(start_datetime, end_datetime, time_interval,
                                       TimeIntervals[time_interval])
    /\ pc' = "fn_counted"
    /\ UNCHANGED <<args, http, responses, time_interval, start_datetime, end_datetime,
                   date_ranges, range_index, list_of_dataframes, df,
                   slept, temp_end_datetime>>

FnGetDateRanges ==
    /\ pc = "fn_counted"
    /\ date_ranges' = get_date_ranges(start_datetime, end_datetime,
                                      TimeIntervals[time_interval])
    /\ pc' = "fn_planned"
    /\ UNCHANGED <<args, http, responses, time_interval, start_datetime, end_datetime,
                   number_of_rows, range_index, list_of_dataframes, df,
                   slept, temp_end_datetime>>

NextFn == FnGetRowCount \/ FnGetDateRanges

FnSpec == InitFn /\ [][NextFn]_vars

----------------------------------------------------------------------------
(* get_date_ranges run step by step: start_datetime is the local variable the *)
(* loop reassigns, end_datetime is final_end_datetime, and args keeps the two *)
(* datetimes the function was called with.                                    *)

InitLoop ==
    /\ pc = "gdr_called"
    /\ http = <<>>
    /\ responses = <<>>
    /\ time_interval \in Intervals
    /\ start_datetime \in FnStarts
    /\ \E q \in FnCounts : \E r \in FnRemainders(TimeIntervals[time_interval]) :
          end_datetime = start_datetime + q * TimeIntervals[time_interval] + r
    /\ args = [call |-> "get_date_ranges",
               start_datetime |-> start_datetime,
               final_end_datetime |-> end_datetime]
    /\ number_of_rows = 0
    /\ date_ranges = <<>>
    /\ range_index = 0
    /\ list_of_dataframes = <<>>
    /\ df = <<>>
    /\ slept = 0
    /\ temp_end_datetime = 0

\* the first temp_end_datetime, and the single window or the first window
GdrFirstWindow ==
    /\ pc = "gdr_called"
    /\ temp_end_datetime' = WindowEnd(start_datetime, TimeIntervals[time_interval])
    /\ IF temp_end_datetime' >= end_datetime
       THEN /\ date_ranges' = << <<start_datetime, end_datetime>> >>
            /\ pc' = "gdr_returned"
       ELSE /\ date_ranges' = << <<start_datetime, temp_end_datetime'>> >>
            /\ pc' = "gdr_while"
    /\ UNCHANGED <<args, http, responses, time_interval, start_datetime, end_datetime,
                   number_of_rows, range_index, list_of_dataframes, df, slept>>

\* one iteration of the while loop
GdrIterate ==
    /\ pc = "gdr_while"
    /\ temp_end_datetime < end_datetime
    /\ start_datetime' = NextStart(temp_end_datetime, TimeIntervals[time_interval])
    /\ temp_end_datetime' =
          ClampEnd(WindowEnd(start_datetime', TimeIntervals[time_interval]),
                   end_datetime)
    /\ date_ranges' = Append(date_ranges, <<start_datetime', temp_end_datetime'>>)
    /\ UNCHANGED <<pc, args, http, responses, time_interval, end_datetime,
                   number_of_rows, range_index, list_of_dataframes, df, slept>>

\* the while condition fails: return date_ranges
GdrReturn ==
    /\ pc = "gdr_while"
    /\ ~(temp_end_datetime < end_datetime)
    /\ pc' = "gdr_returned"
    /\ UNCHANGED <<args, http, responses, time_interval, start_datetime, end_datetime,
                   number_of_rows, date_ranges, range_index, list_of_dataframes, df,
                   slept, temp_end_datetime>>

NextLoop == GdrFirstWindow \/ GdrIterate \/ GdrReturn

\* the function runs on: a step that can be taken is taken
LoopSpec == InitLoop /\ [][NextLoop]_vars /\ WF_vars(NextLoop)

----------------------------------------------------------------------------
(* Candles.__init__: the arguments of a call *)

\* the first and last dates of a call: start_date in 0..MaxStartDate, end_date
\* in 0..MaxEndDate or at a window boundary or at the row limit of the daily interval
MaxStartDate == 1
MaxEndDate == 2

ArgEndDates == (0..MaxEndDate) \cup {MaxRowsPerWindow, MaxRowsPerWindow + 1, RowLimit}

\* start_time: 00:00:00 (the default), 00:00:30, 12:00:00
ArgStartTimes == {0, 30, 43200}

\* end_time: 00:00:00, 00:03:00, 14:00:00, 14:30:00, 23:59:59 (the default)
ArgEndTimes == {0, 180, 50400, 52200, 86399}

\* local_timezone: America/New_York (UTC-5, the default), UTC, Asia/Kolkata (UTC+5:30)
ArgTimezones == {-18000, 0, 19800}

\* time_interval: the supported ones and one that is not
ArgIntervals == Intervals \cup {"2h"}

\* get_valid_exchanges() is ['coinbase']
ValidExchanges == {"coinbase"}

\* the ids the exchange lists: get_trading_pairs(exchange)['id'].values
TradingPairs == {"BTC-USD"}

Arguments ==
    [exchange       : {"coinbase", "kraken"},
     ticker_id      : {"BTC-USD", "DOGE-XYZ"},
     start_date     : 0..MaxStartDate,
     end_date       : ArgEndDates,
     start_time     : ArgStartTimes,
     end_time       : ArgEndTimes,
     local_timezone : ArgTimezones,
     time_interval  : ArgIntervals]

----------------------------------------------------------------------------
(* Candles.__init__: the datetimes *)

\* if self.time_interval == '1d': the times are hardcoded
KeepTime(interval, time, hardcoded) == time
OverrideTime(interval, time, hardcoded) == IF interval = "1d" THEN hardcoded ELSE time

\* datetime.combine(date, time)
Combine(date, time) == date * SecondsPerDay + time

\* local_timezone_object.localize(naive).astimezone(pytz.utc)
ToUtc(naive, timezone) == naive - timezone

\* df['datetime'].dt.tz_convert(pytz.timezone(local_timezone)), as wall clock
ToLocal(utc, timezone) == utc + timezone

\* if self.time_interval != '1d': convert the datetime to utc
Normalize(interval, naive, timezone) ==
    IF interval # "1d" THEN ToUtc(naive, timezone) ELSE naive

StartDatetime(a) ==
    Normalize(a.time_interval,
              Combine(a.start_date,
                      OverrideTime(a.time_interval, a.start_time, StartOfDay)),
              a.local_timezone)

EndDatetime(a) ==
    Normalize(a.time_interval,
              Combine(a.end_date,
                      OverrideTime(a.time_interval, a.end_time, EndOfDay)),
              a.local_timezone)

----------------------------------------------------------------------------
(* Candles.__init__: requests and the assembly *)

\* get_requests: if response.status_code != 200: raise
AnyStatusOk(status) == TRUE
StatusOk(status) == status = StatusOK

\* if number_of_rows > 5000: raise
ExceedsLimitOffByOne(rows) == rows > RowLimit + 1
ExceedsLimit(rows) == rows > RowLimit

\* requests.get(url) of get_trading_pairs
ProductsRequest == [url |-> "products"]

\* requests.get(url, params=payload) for one window of date_ranges
CandlesRequest(range, seconds) ==
    [url |-> "candles", granularity |-> seconds, start |-> range[1], end |-> range[2]]

\* pd.concat(list_of_dataframes, ignore_index=True)
RECURSIVE Concat(_)
Concat(frames) ==
    IF frames = <<>> THEN <<>> ELSE Concat(SubSeq(frames, 1, Len(frames) - 1))
                                        \o frames[Len(frames)]

\* the date and start_time columns of one row; the daily series drops start_time
Row(interval, datetime, timezone) ==
    IF interval = "1d"
    THEN [date |-> datetime \div SecondsPerDay]
    ELSE [date       |-> ToLocal(datetime, timezone) \div SecondsPerDay,
          start_time |-> ToLocal(datetime, timezone) % SecondsPerDay]

\* concat, to_datetime, tz_convert, sort_values, and the final columns
Assemble(frames, interval, timezone) ==
    LET sorted == SortSeq(Concat(frames), LAMBDA a, b : a < b)
    IN  [i \in 1..Len(sorted) |-> Row(interval, sorted[i], timezone)]

----------------------------------------------------------------------------
(* Candles.__init__: the steps *)

Init ==
    /\ pc = "new"
    /\ args = [call |-> "none"]
    /\ http = <<>>
    /\ responses = <<>>
    /\ time_interval = "none"
    /\ start_datetime = 0
    /\ end_datetime = 0
    /\ number_of_rows = 0
    /\ date_ranges = <<>>
    /\ range_index = 0
    /\ list_of_dataframes = <<>>
    /\ df = <<>>
    /\ slept = 0
    /\ temp_end_datetime = 0

\* validate_exchange, the ticker_id type check, and the request of
\* get_trading_pairs for the ids of the exchange
Call(a) ==
    /\ pc = "new"
    /\ args' = a
    /\ IF a.exchange \in ValidExchanges
       THEN /\ http' = Append(http, ProductsRequest)
            /\ pc' = "pairs_requested"
       ELSE /\ pc' = "failed_exchange"
            /\ UNCHANGED http
    /\ UNCHANGED <<responses, time_interval, start_datetime, end_datetime,
                   number_of_rows, date_ranges, range_index, list_of_dataframes, df,
                   slept, temp_end_datetime>>

\* a call of the constructor with any of the arguments
NewCall == pc = "new" /\ \E a \in Arguments : Call(a)

\* the response of the exchange to get_trading_pairs, and the ticker check
PairsResponse(status) ==
    /\ pc = "pairs_requested"
    /\ responses' = Append(responses, status)
    /\ pc' = IF ~StatusOk(status) THEN "failed_upstream"
             ELSE IF args.ticker_id \notin TradingPairs THEN "failed_ticker"
             ELSE "validated"
    /\ UNCHANGED <<args, http, time_interval, start_datetime, end_datetime,
                   number_of_rows, date_ranges, range_index, list_of_dataframes, df,
                   slept, temp_end_datetime>>

\* the interval check, the datetimes, and get_row_count
CountRows ==
    /\ pc = "validated"
    /\ IF args.time_interval \notin Intervals
       THEN /\ pc' = "failed_interval"
            /\ UNCHANGED <<time_interval, start_datetime, end_datetime, number_of_rows>>
       ELSE /\ time_interval' = args.time_interval
            /\ start_datetime' = StartDatetime(args)
            /\ end_datetime' = EndDatetime(args)
            /\ number_of_rows' = get_row_count(StartDatetime(args), EndDatetime(args),
                                               args.time_interval,
                                               TimeIntervals[args.time_interval])
            /\ pc' = "counted"
    /\ UNCHANGED <<args, http, responses, date_ranges, range_index, list_of_dataframes, df,
                   slept, temp_end_datetime>>

\* the 5000 row throttle, then get_date_ranges
PlanWindows ==
    /\ pc = "counted"
    /\ IF ExceedsLimit(number_of_rows)
       THEN /\ pc' = "rejected"
            /\ UNCHANGED date_ranges
       ELSE /\ date_ranges' = get_date_ranges(start_datetime, end_datetime,
                                              TimeIntervals[time_interval])
            /\ pc' = "request"
    /\ UNCHANGED <<args, http, responses, time_interval, start_datetime, end_datetime,
                   number_of_rows, range_index, list_of_dataframes, df,
                   slept, temp_end_datetime>>

\* get_requests for the next window: requests.get
SendRequest ==
    /\ pc = "request"
    /\ http' = Append(http, CandlesRequest(date_ranges[range_index + 1],
                                           TimeIntervals[time_interval]))
    /\ pc' = "await"
    /\ UNCHANGED <<args, responses, time_interval, start_datetime, end_datetime,
                   number_of_rows, date_ranges, range_index, list_of_dataframes, df,
                   slept, temp_end_datetime>>

\* the response: get_requests raises on a status other than 200, else the
\* dataframe of the response is appended
ReceiveResponse(status) ==
    /\ pc = "await"
    /\ responses' = Append(responses, status)
    /\ IF StatusOk(status)
       THEN /\ list_of_dataframes' =
                  Append(list_of_dataframes,
                         ExchangeCandles(date_ranges[range_index + 1][1],
                                         date_ranges[range_index + 1][2],
                                         TimeIntervals[time_interval]))
            /\ pc' = "sleep"
       ELSE /\ pc' = "failed_upstream"
            /\ UNCHANGED list_of_dataframes
    /\ UNCHANGED <<args, http, time_interval, start_datetime, end_datetime,
                   number_of_rows, date_ranges, range_index, df,
                   slept, temp_end_datetime>>

\* the delay of time.sleep(1), in seconds
SleepSeconds == 1

\* time.sleep(1)
NoSleep(seconds_slept) == seconds_slept
AfterSleep(seconds_slept) == seconds_slept + SleepSeconds

\* time.sleep(1), then the next window or the end of the for loop
Sleep ==
    /\ pc = "sleep"
    /\ slept' = AfterSleep(slept)
    /\ range_index' = range_index + 1
    /\ pc' = IF range_index + 1 < Len(date_ranges) THEN "request" ELSE "assemble"
    /\ UNCHANGED <<args, http, responses, time_interval, start_datetime, end_datetime,
                   number_of_rows, date_ranges, list_of_dataframes, df,
                   temp_end_datetime>>

\* the series: self.df = df
AssembleSeries ==
    /\ pc = "assemble"
    /\ df' = <<Assemble(list_of_dataframes, time_interval, args.local_timezone)>>
    /\ pc' = "done"
    /\ UNCHANGED <<args, http, responses, time_interval, start_datetime, end_datetime,
                   number_of_rows, date_ranges, range_index, list_of_dataframes,
                   slept, temp_end_datetime>>

Next ==
    \/ NewCall
    \/ \E status \in {StatusOK, StatusError} : PairsResponse(status)
    \/ CountRows
    \/ PlanWindows
    \/ SendRequest
    \/ \E status \in {StatusOK, StatusError} : ReceiveResponse(status)
    \/ Sleep
    \/ AssembleSeries

Spec == Init /\ [][Next]_vars

----------------------------------------------------------------------------
(* Vocabulary of the properties *)

Seconds == IF time_interval \in Intervals THEN TimeIntervals[time_interval] ELSE 1

\* the windows of date_ranges that hold the instant t
WindowsHolding(t) ==
    {i \in 1..Len(date_ranges) : date_ranges[i][1] <= t /\ t <= date_ranges[i][2]}

\* the number of candles the exchange returns for window i
WindowSize(i) == Len(ExchangeCandles(date_ranges[i][1], date_ranges[i][2], Seconds))

----------------------------------------------------------------------------
\* C1: for start <= end, get_date_ranges returns an ordered list of windows
\* that begins at start and ends at end, each window starting one interval
\* after the end of the one before, none spanning more than 290 intervals,
\* and every timestamp start + k*d up to end lies in exactly one window.
C1_WindowsPartitionTheSpan ==
    (pc = "fn_planned" /\ start_datetime <= end_datetime) =>
        LET n == Len(date_ranges)
        IN  /\ n >= 1
            /\ date_ranges[1][1] = start_datetime
            /\ date_ranges[n][2] = end_datetime
            /\ \A i \in 1..(n - 1) :
                  /\ date_ranges[i + 1][1] = date_ranges[i][2] + Seconds
                  /\ date_ranges[i][1] < date_ranges[i + 1][1]
            /\ \A i \in 1..n :
                  date_ranges[i][2] - date_ranges[i][1] <= MaxRowsPerWindow * Seconds
            /\ \A k \in 0..((end_datetime - start_datetime) \div Seconds) :
                  Cardinality(WindowsHolding(start_datetime + k * Seconds)) = 1

\* a span of three windows from a start that is off the grid has been planned
C1_Witness ==
    /\ pc = "fn_planned"
    /\ start_datetime % Seconds # 0
    /\ Len(date_ranges) = 3
    /\ date_ranges[3][2] = end_datetime

\* C4 (as claimed): get_row_count returns the number of candles the exchange
\* returns for the inclusive range, for every interval and every start <= end.
C4_RowCountIsExchangeCount ==
    (pc \in {"fn_counted", "fn_planned"} /\ start_datetime <= end_datetime) =>
        number_of_rows = Len(ExchangeCandles(start_datetime, end_datetime, Seconds))

----------------------------------------------------------------------------
(* Vocabulary of the properties of the constructor *)

\* get_row_count has been called by the constructor
Counted == args # [call |-> "none"] /\ args # [call |-> "functions"]
               /\ time_interval \in Intervals

\* get_date_ranges has returned
Planned == date_ranges # <<>>

\* the requests for candles sent so far
CandleRequests == SelectSeq(http, LAMBDA r : r.url = "candles")

\* the instant of a row of the series, from its date and start_time columns
RowInstant(row) ==
    IF time_interval = "1d"
    THEN row.date * SecondsPerDay
    ELSE row.date * SecondsPerDay + row.start_time

----------------------------------------------------------------------------
\* C2 (as claimed): every window [s, e] planned for a range with start <= end
\* has s <= e, the daily ranges of the constructor included.
C2_WindowsAreOrderedPairs ==
    (Planned /\ start_datetime <= end_datetime) =>
        \A i \in 1..Len(date_ranges) : date_ranges[i][1] <= date_ranges[i][2]

\* C3 (as claimed): every candle of the exchange (a multiple of the interval)
\* between start and end lies inside at least one planned window, whether or
\* not start is itself a multiple of the interval.
C3_EveryCandleIsInAWindow ==
    (Planned /\ start_datetime <= end_datetime) =>
        LET candles == ExchangeCandles(start_datetime, end_datetime, Seconds)
        IN  \A k \in 1..Len(candles) : WindowsHolding(candles[k]) # {}

\* C5 (as claimed): a request of more than 5000 estimated rows is rejected
\* before any HTTP call: no request precedes the rejection, and no window is
\* planned or fetched.
C5_NoHttpBeforeRejection ==
    (Counted /\ number_of_rows > RowLimit) =>
        /\ pc \in {"counted", "rejected"}
        /\ http = <<>>
        /\ date_ranges = <<>>
        /\ list_of_dataframes = <<>>
        /\ df = <<>>

\* C5 (amended): a request of more than 5000 estimated rows that passed the
\* ticker validation is rejected before any request for candles: the only HTTP
\* request made is the trading pairs listing of the ticker validation, which
\* precedes the row count, and no window is planned or fetched.
C5_NoCandleRequestBeforeRejection ==
    (Counted /\ number_of_rows > RowLimit) =>
        /\ pc \in {"counted", "rejected"}
        /\ http = <<ProductsRequest>>
        /\ date_ranges = <<>>
        /\ list_of_dataframes = <<>>
        /\ df = <<>>

\* a request of 5001 rows has been rejected
C5_Witness ==
    /\ pc = "rejected"
    /\ number_of_rows = RowLimit + 1
    /\ CandleRequests = <<>>

\* C6 (as claimed): when end < start the row count estimation fails:
\* get_row_count returns no count, no window is planned and no request for
\* candles is sent.
C6_InvertedRangeFails ==
    (Counted /\ end_datetime < start_datetime) =>
        /\ pc \notin {"counted", "request", "await", "sleep", "assemble", "done"}
        /\ date_ranges = <<>>
        /\ CandleRequests = <<>>

\* C7: a response to a window's request with a status other than 200 ends the
\* fetch: it is the last response and its request the last request (no later
\* window is requested, the failed one is not requested again: the requests
\* sent are those of the first windows of the plan, once each, in order), and
\* self.df is never set.
C7_FailedWindowAborts ==
    \A i \in 2..Len(responses) :
        responses[i] # StatusOK =>
            /\ i = Len(responses)
            /\ i = Len(http)
            /\ pc = "failed_upstream"
            /\ df = <<>>
            /\ Len(list_of_dataframes) = i - 2
            /\ CandleRequests =
                  [j \in 1..(i - 1) |-> CandlesRequest(date_ranges[j], Seconds)]

\* the request for the second window of a plan of at least three was answered
\* with an error
C7_Witness ==
    /\ Len(responses) = 3
    /\ responses[3] # StatusOK
    /\ Len(date_ranges) >= 3
    /\ pc = "failed_upstream"

\* C8 (as claimed): for an admitted request with start <= end whose windows
\* are all answered with their candles, the series has as many rows as
\* get_row_count returned, strictly ascending and one interval apart.
C8_SeriesMatchesRowCount ==
    (pc = "done" /\ start_datetime <= end_datetime) =>
        /\ Len(df[1]) = number_of_rows
        /\ \A i \in 1..(Len(df[1]) - 1) :
              RowInstant(df[1][i + 1]) - RowInstant(df[1][i]) = Seconds

\* C9: for the daily interval the range counted and planned is start_date
\* 00:00:00 to end_date 23:59:59, unconverted, whatever times and timezone
\* were passed, and for start_date <= end_date the row count is the number of
\* calendar days from start_date to end_date inclusive.
C9_DailyRangeIsWholeDays ==
    (Counted /\ time_interval = "1d") =>
        /\ start_datetime = args.start_date * SecondsPerDay
        /\ end_datetime = args.end_date * SecondsPerDay + EndOfDay
        /\ args.start_date <= args.end_date =>
              number_of_rows = args.end_date - args.start_date + 1
        /\ Planned =>
              /\ date_ranges[1][1] = args.start_date * SecondsPerDay
              /\ date_ranges[Len(date_ranges)][2] = args.end_date * SecondsPerDay + EndOfDay

\* a daily call for day 0 to day 2 (2023-01-01 .. 2023-01-03), passed other
\* times than the defaults and a timezone off UTC, counted 3 rows
C9_Witness ==
    /\ Counted
    /\ time_interval = "1d"
    /\ args.start_date = 0
    /\ args.end_date = 2
    /\ args.start_time # StartOfDay
    /\ args.end_time # EndOfDay
    /\ args.local_timezone # 0
    /\ number_of_rows = 3
    /\ pc = "done"

----------------------------------------------------------------------------
\* C11: while every response has status 200, the constructor sends one request
\* for candles per planned window, in the order of the plan; a request is sent
\* only after the response to the one before it was received and appended (at
\* most one request is outstanding) and after the 1 second sleep that follows
\* each response; and the series is assembled only after the response to the
\* last window.
C11_OneRequestPerWindowInOrder ==
    (Planned /\ \A i \in 1..Len(responses) : responses[i] = StatusOK) =>
        LET sent     == Len(CandleRequests)
            received == Len(responses) - 1
        IN  /\ sent <= Len(date_ranges)
            /\ CandleRequests =
                  [j \in 1..sent |-> CandlesRequest(date_ranges[j], Seconds)]
            /\ sent - received \in {0, 1}
            /\ (pc = "await") <=> (sent = received + 1)
            /\ Len(list_of_dataframes) = received
            /\ pc = "await" => slept = (sent - 1) * SleepSeconds
            /\ slept = range_index * SleepSeconds
            /\ df # <<>> =>
                  /\ pc = "done"
                  /\ sent = Len(date_ranges)
                  /\ received = Len(date_ranges)
            /\ pc = "done" => df # <<>>

\* a plan of at least three windows was fetched and assembled
C11_Witness ==
    /\ pc = "done"
    /\ Len(date_ranges) >= 3
    /\ \A i \in 1..Len(responses) : responses[i] = StatusOK
    /\ Len(CandleRequests) = Len(date_ranges)
    /\ slept = Len(date_ranges) * SleepSeconds
    /\ df # <<>>

----------------------------------------------------------------------------
\* the windows the steps of the loop build are those of get_date_ranges
LoopBuildsDateRanges ==
    pc = "gdr_returned" =>
        date_ranges = get_date_ranges(args.start_datetime, args.final_end_datetime,
                                      Seconds)

\* C12: for every start, end and interval the loop of get_date_ranges ends
\* after finitely many iterations; while it runs the cursor (the end of the
\* last emitted window) never passes end and grows with every iteration, and
\* whenever end > start + 290*d the loop stops exactly when the end of the
\* last emitted window equals end.
C12_LoopTerminatesAtEnd ==
    /\ <>(pc = "gdr_returned")
    /\ [](pc = "gdr_while" =>
            /\ temp_end_datetime <= end_datetime
            /\ date_ranges[Len(date_ranges)][2] = temp_end_datetime
            /\ (ENABLED GdrReturn) <=> (temp_end_datetime = end_datetime))
    /\ [][(pc = "gdr_while" /\ pc' = "gdr_while") =>
            temp_end_datetime' > temp_end_datetime]_vars
    /\ []((/\ pc = "gdr_returned"
           /\ args.final_end_datetime >
                 args.start_datetime + MaxRowsPerWindow * Seconds) =>
            /\ temp_end_datetime = args.final_end_datetime
            /\ date_ranges[Len(date_ranges)][2] = args.final_end_datetime
            /\ Len(date_ranges) <=
                  (args.final_end_datetime - args.start_datetime)
                      \div ((MaxRowsPerWindow + 1) * Seconds) + 2)

\* the loop returned after at least two iterations, the last one clamped to an
\* end that is off the grid of the windows
C12_Witness ==
    /\ pc = "gdr_returned"
    /\ Len(date_ranges) >= 3
    /\ temp_end_datetime = args.final_end_datetime
    /\ (args.final_end_datetime - args.start_datetime) % Seconds # 0

=============================================================================
